---- MODULE Spec2Model ----
(***************************************************************************)
(* lockit-mongodb-adapter: the user-record adapter over a document store.  *)
(*                                                                         *)
(* Two adapter variants live in the repository:                            *)
(*   "index"   src/index.js           (couch-pwd, createIndex at connect)   *)
(*   "part000" src/unnamed/part_000   (bcrypt, no index creation)           *)
(* The variant and the configuration are fixed in Init; every operation of *)
(* the adapter is split at the points where the code hands control to the  *)
(* hasher or to the store and continues in a callback.                     *)
(*                                                                         *)
(* The document store is the external collaborator.  It is modelled by its *)
(* contract: save inserts a document without _id under a fresh _id and     *)
(* replaces-or-inserts (upsert) a document with an _id; a unique index,    *)
(* once built, rejects a write that would duplicate the indexed field;     *)
(* findOne returns some matching document or null; remove deletes every    *)
(* matching document and reports how many.  Any store request may also     *)
(* fail with an infrastructure error.                                      *)
(***************************************************************************)
EXTENDS Integers, Sequences, FiniteSets, Bags, TLC

\* ------------------------------------------------------------- bounds
MaxCalls    == 3   \* adapter calls issued in one behaviour
MaxInFlight == 2   \* adapter calls awaiting the hasher or the store at once
MaxFails    == 1   \* highest failedLoginAttempts an update writes

Names     == {"alice", "bob"}
Emails    == {"a@x", "b@x"}
Passwords == {1}
Salts     == {1}
Tokens    == {1, 2} \* the signup tokens uuid.v4() hands out, in this order
Extras    == {"x"}
NoExtra   == "absent"
NoId      == 0
Times     == {0}    \* readings of the clock when save starts
Ticks     == {0, 1} \* clock ticks that pass between two readings of the clock
\* The (name, email) pairs save is called with: two share a name, two share
\* an email, two share nothing.
Signups   == { <<"alice", "a@x">>, <<"alice", "b@x">>, <<"bob", "a@x">> }

\* The deployments checked.  index.js runs with uniqueName on and off and
\* with useExtra on and off; part_000 reads neither option and runs with
\* both switched on.  Every token expiration occurs.
Config(u, x, n, unit) ==
  [uniqueName |-> u, useExtra |-> x, tokenExpiration |-> [n |-> n, unit |-> unit]]
Deployments ==
  { <<"index", Config(TRUE, TRUE, 1, "h")>>,
    <<"index", Config(FALSE, FALSE, 7, "d")>>,
    <<"part000", Config(TRUE, TRUE, 24, "h")>> }

VARIABLES
  variant,        \* which adapter file is running
  config,         \* [uniqueName, useExtra, tokenExpiration]
  db,             \* TRUE once the connect callback has assigned the handle
  emailIndex,     \* "none" | "requested" | "built" | "failed"
  nameIndex,      \* "none" | "requested" | "built" | "failed"
  store,          \* the collection: a set of documents
  nextId,         \* next _id the store assigns
  nextToken,      \* next value uuid.v4() returns (never repeats)
  issued,         \* number of adapter calls issued so far
  calls,          \* the adapter calls in flight: a bag of call records
  ended,          \* the call that just ended, until its caller has returned
  fresh           \* history: records as a create returned them, untouched since

vars == <<variant, config, db, emailIndex, nameIndex, store, nextId,
          nextToken, issued, calls, ended, fresh>>

\* ------------------------------------------------------ pure functions

\* A duration string that parses to no time at all.
msNone(s) == 0

\* ms(str): a duration string to milliseconds.
ms(s) ==
  CASE s.unit = "h" -> s.n * 3600000
    [] s.unit = "d" -> s.n * 86400000

\* The hasher's derivation (pbkdf2 / bcrypt): injective in (pw, salt) and
\* never the plaintext itself.
Derive(pw, salt) == 100 + 10 * salt + pw

NoErr == [kind |-> "none", name |-> ""]
Err(k) == [kind |-> k, name |-> ""]
\* new Error('lockit - Cannot find user "' + name + '"')
CannotFindUser(name) == [kind |-> "UserNotFound", name |-> name]

NoUser ==
  [_id |-> NoId, name |-> "", email |-> "", signupToken |-> 0,
   signupTimestamp |-> 0, signupTokenExpires |-> 0,
   failedLoginAttempts |-> 0, salt |-> 0, derived_key |-> 0,
   extra |-> NoExtra]

\* The user object save() builds before hashing: now and later are the two
\* readings of the clock.
NewUser(name, email, extra, now, later) ==
  [NoUser EXCEPT
     !.name = name, !.email = email, !.signupToken = nextToken,
     !.signupTimestamp = now,
     !.signupTokenExpires = later + ms(config.tokenExpiration),
     !.failedLoginAttempts = 0,
     !.extra = IF variant = "index" /\ config.useExtra THEN extra ELSE NoExtra]

\* --------------------------------------------------------- the store

\* Documents matching the filter {field: value}.
Matching(field, value) == { d \in store : d[field] = value }

\* A built unique index rejects document d when another document already
\* carries d's value of the indexed field.
DuplicateKey(d) ==
  \/ /\ emailIndex = "built"
     /\ \E o \in store : o._id # d._id /\ o.email = d.email
  \/ /\ nameIndex = "built"
     /\ \E o \in store : o._id # d._id /\ o.name = d.name

\* collection.save(doc) applied: insert under a fresh _id when doc has none,
\* else replace the document of that _id or insert it (upsert).
Saved(d) == IF d._id = NoId THEN [d EXCEPT !._id = nextId] ELSE d

\* A save that patches the stored document field by field: the stored count
\* of failed logins survives when the given one is lower.
StoreAfterSaveMerged(d) ==
  { o \in store : o._id # Saved(d)._id }
    \cup { IF \E o \in store : o._id = d._id
           THEN LET old == CHOOSE o \in store : o._id = d._id
                IN [d EXCEPT !.failedLoginAttempts =
                               IF old.failedLoginAttempts > @
                               THEN old.failedLoginAttempts ELSE @]
           ELSE Saved(d) }

StoreAfterSave(d) ==
  { o \in store : o._id # Saved(d)._id } \cup { Saved(d) }

\* --------------------------------------------------------- call records

\* A call of the adapter: its arguments (user, pw, extra, match, query),
\* whether the handle was assigned when it was made (connected), where it
\* stands (pc), the errors the hasher and the store's save handed to its
\* callbacks (hashErr, saveErr), and what its done callback received (ret,
\* err, doc) in how many invocations (dones).  History of an update:
\* existed (its _id was stored when the store handled its save), wrote (its
\* save was applied), conc (another call wrote while it was in flight).
NewCall(op, pc) ==
  [op |-> op, pc |-> pc, user |-> NoUser, pw |-> 0, extra |-> NoExtra,
   match |-> "", query |-> "", connected |-> db,
   hashErr |-> NoErr, saveErr |-> NoErr,
   ret |-> "pending", err |-> NoErr, doc |-> <<>>, dones |-> 0,
   existed |-> FALSE, wrote |-> FALSE, conc |-> FALSE]

\* done(err, value): the callback of call c is invoked.
Done(c, ret, err, doc) ==
  [c EXCEPT !.pc = "end", !.ret = ret, !.err = err, !.doc = doc,
            !.dones = c.dones + 1]

\* A handler that reports the unset handle to the callback as an error.
ThrewAsError(c) == Done(c, "err", Err("NotConnected"), <<>>)

\* An exception leaves the handler: the callback is never invoked.
Threw(c) == [c EXCEPT !.pc = "end", !.ret = "threw"]

InFlight == BagToSet(calls)

\* Another call's write reached the store: every update in flight between
\* its own save and its re-read has seen a concurrent writer.
Mark(c) ==
  IF c.op = "update" /\ c.pc \in {"usave", "reread"}
  THEN [c EXCEPT !.conc = TRUE] ELSE c
MarkWriters(cs) == BagOfAll(Mark, cs)

\* The calls in flight once call c has gone on to c2: at its end a call is
\* no longer in flight.
Moved(cs, c2) == IF c2.pc = "end" THEN cs ELSE cs (+) SetToBag({c2})

\* Call c goes on to c2; a call that reached its end is the call that just
\* ended.
Step(c, c2) ==
  /\ ended = <<>>
  /\ calls' = Moved(calls (-) SetToBag({c}), c2)
  /\ ended' = IF c2.pc = "end" THEN <<c2>> ELSE <<>>

\* The same, with a write to the store applied in the step.
StepWrite(c, c2) ==
  /\ ended = <<>>
  /\ calls' = Moved(MarkWriters(calls (-) SetToBag({c})), c2)
  /\ ended' = IF c2.pc = "end" THEN <<c2>> ELSE <<>>

\* A call is issued as c: it throws at once (the handle is unset) or is in
\* flight.
Issue(c) ==
  /\ ended = <<>>
  /\ issued < MaxCalls
  /\ issued' = issued + 1
  /\ IF c.pc = "end"
     THEN /\ ended' = <<c>>
          /\ UNCHANGED calls
     ELSE /\ BagCardinality(calls) < MaxInFlight
          /\ calls' = calls (+) SetToBag({c})
          /\ ended' = <<>>

Init ==
  /\ \E dep \in Deployments : variant = dep[1] /\ config = dep[2]
  /\ db = FALSE
  /\ emailIndex = "none"
  /\ nameIndex = "none"
  /\ store = {}
  /\ nextId = 1
  /\ nextToken = 1
  /\ issued = 0
  /\ calls = EmptyBag
  /\ ended = <<>>
  /\ fresh = {}

\* MongoClient.connect's callback: the handle is assigned and, in index.js,
\* the index requests are sent without waiting for their completion (the
\* name index is created when uniqueName is set and dropped otherwise).
Connect ==
  /\ ended = <<>>
  /\ ~db
  /\ db' = TRUE
  /\ emailIndex' = IF variant = "index" THEN "requested" ELSE emailIndex
  /\ nameIndex' = IF variant = "index"
                  THEN (IF config.uniqueName THEN "requested" ELSE "none")
                  ELSE nameIndex
  /\ ended' = <<>>
  /\ UNCHANGED <<issued, variant, config, store, nextId, nextToken, calls, fresh>>

\* The store builds a requested unique index; the build fails when the
\* collection already holds two documents with the same key.
BuildEmailIndex ==
  /\ ended = <<>>
  /\ emailIndex = "requested"
  /\ emailIndex' =
       IF \E a, b \in store : a # b /\ a.email = b.email
       THEN "failed" ELSE "built"
  /\ ended' = <<>>
  /\ UNCHANGED <<issued, variant, config, db, nameIndex, store, nextId, nextToken,
                 calls, fresh>>

BuildNameIndex ==
  /\ ended = <<>>
  /\ nameIndex = "requested"
  /\ nameIndex' =
       IF \E a, b \in store : a # b /\ a.name = b.name
       THEN "failed" ELSE "built"
  /\ ended' = <<>>
  /\ UNCHANGED <<issued, variant, config, db, emailIndex, store, nextId, nextToken,
                 calls, fresh>>

\* ------------------------------------------------------------ save
\* save(name, email, pw, extra, done) up to the call of the hasher: the
\* clock is read twice, for signupTimestamp and for signupTokenExpires.
CallSave ==
  /\ nextToken \in Tokens
  /\ \E who \in Signups, pw \in Passwords,
        extra \in Extras, now \in Times, d \in Ticks :
       Issue([NewCall("save", "hash") EXCEPT
                !.user = NewUser(who[1], who[2], extra, now, now + d),
                !.pw = pw, !.extra = extra])
  /\ nextToken' = nextToken + 1
  /\ UNCHANGED <<variant, config, db, emailIndex, nameIndex, store, nextId,
                 fresh>>

\* The hasher's callback without the return after done(err): the call goes
\* on to the store's save.
HashAnswerNoReturn(c, failed, salt) ==
  IF ~db THEN Threw(c)
  ELSE [c EXCEPT !.pc = "save", !.user.salt = salt,
                 !.user.derived_key = Derive(c.pw, salt),
                 !.hashErr = IF failed THEN Err("HashingFailure") ELSE NoErr,
                 !.err = IF failed THEN Err("HashingFailure") ELSE NoErr,
                 !.dones = IF failed THEN 1 ELSE 0]

\* The hasher's callback: done(err) on failure, else the store's save is
\* requested through the shared handle (an exception when it is unset).
HashAnswer(c, failed, salt) ==
  IF failed
  THEN Done([c EXCEPT !.hashErr = Err("HashingFailure")], "err",
            Err("HashingFailure"), <<>>)
  ELSE IF ~db THEN Threw(c)
  ELSE [c EXCEPT !.pc = "save", !.user.salt = salt,
                 !.user.derived_key = Derive(c.pw, salt)]

HashDone(c) ==
  /\ c.pc = "hash"
  /\ \E failed \in BOOLEAN, salt \in Salts :
       Step(c, HashAnswer(c, failed, salt))
  /\ UNCHANGED <<issued, variant, config, db, emailIndex, nameIndex, store, nextId,
                 nextToken, fresh>>

\* What save's store callback does when the store reports an error:
\* index.js evaluates result.ops[0] with result null, which throws before
\* done is reached; part_000 hands the store's callback to done itself.
SaveRejected(c, error) ==
  IF variant = "index" THEN Threw([c EXCEPT !.saveErr = error])
  ELSE Done([c EXCEPT !.saveErr = error], "err", error, <<>>)

\* The store handles save's write and the adapter's callback runs.
SaveStored(c) ==
  /\ c.pc = "save"
  /\ \E failed \in BOOLEAN :
       LET dup == DuplicateKey(c.user)
           error == IF failed THEN Err("StoreError") ELSE Err("DuplicateUser")
       IN IF failed \/ dup
          THEN /\ Step(c, SaveRejected(c, error))
               /\ UNCHANGED <<store, nextId, fresh>>
          ELSE /\ store' = StoreAfterSave(c.user)
               /\ nextId' = nextId + 1
               /\ StepWrite(c, Done(c, "doc", NoErr, <<Saved(c.user)>>))
               /\ fresh' =
                    IF \E o \in store :
                         o.name = c.user.name \/ o.email = c.user.email
                    THEN fresh ELSE fresh \cup {Saved(c.user)}
  /\ UNCHANGED <<issued, variant, config, db, emailIndex, nameIndex, nextToken>>

\* ------------------------------------------------------------ find
\* The (match, query) pairs find is called with.
FindKeys ==
  { <<"name", "alice">>, <<"name", "bob">>, <<"email", "a@x">>,
    <<"signupToken", 1>> }

\* findOne's answer handed to done with an empty result turned into an
\* error.
FindAnswerNullIsError(c, failed, d) ==
  IF failed THEN Done(c, "err", Err("StoreError"), <<>>)
  ELSE IF d = NoUser THEN Done(c, "err", Err("NotFound"), <<>>)
  ELSE Done(c, "doc", NoErr, <<d>>)

\* findOne's answer handed to done: an error, null, or a matching document.
FindAnswer(c, failed, d) ==
  IF failed THEN Done(c, "err", Err("StoreError"), <<>>)
  ELSE IF d = NoUser THEN Done(c, "null", NoErr, <<>>)
  ELSE Done(c, "doc", NoErr, <<d>>)

\* findOne with a filter that names no field of the documents.
FoundNothing(field, value, failed) == {NoUser}

\* findOne with an empty filter: any stored document may be the answer.
FoundAny(field, value, failed) ==
  IF failed \/ store = {} THEN {NoUser} ELSE store

\* The documents findOne({field: value}) may answer with (NoUser stands
\* for none).
Found(field, value, failed) ==
  IF failed \/ Matching(field, value) = {} THEN {NoUser}
  ELSE Matching(field, value)

\* A call ends in the step in which it is issued.
IssueEnded(c) ==
  /\ ended = <<>>
  /\ issued < MaxCalls
  /\ issued' = issued + 1
  /\ ended' = <<c>>
  /\ UNCHANGED calls

\* find(match, query, done) with the store's answer.  The call holds
\* nothing but its arguments between the request and the answer, so the
\* two are one step, taken when the store answers; with the handle unset
\* the call throws at once.
Find ==
  /\ \E k \in FindKeys, failed \in BOOLEAN :
       LET c == [NewCall("find", "find") EXCEPT !.match = k[1], !.query = k[2]]
       IN IF ~db THEN IssueEnded(Threw(c))
          ELSE \E d \in Found(k[1], k[2], failed) :
                 IssueEnded(FindAnswer(c, failed, d))
  /\ UNCHANGED <<variant, config, db, emailIndex, nameIndex, store, nextId,
                 nextToken, fresh>>

\* ---------------------------------------------------------- update
\* Records a caller passes to update: a document it read from the store,
\* with a field changed (a new email, one more failed login, or the signup
\* token and its expiry cleared once the token is consumed).  The document
\* may be gone from the store by the time the store handles update's save.
Edits(r) ==
  { [r EXCEPT !.email = e] : e \in Emails \ {r.email} }
    \cup { [r EXCEPT !.failedLoginAttempts = x] :
             x \in { r.failedLoginAttempts + 1 } \cap (0..MaxFails) }
    \cup { [r EXCEPT !.signupToken = NoUser.signupToken,
                     !.signupTokenExpires = NoUser.signupTokenExpires] :
             x \in { r.signupToken } \ { NoUser.signupToken } }

\* update(user, done): the save is requested through the handle.
CallUpdate ==
  /\ \/ /\ ~db
        /\ IssueEnded(Threw(NewCall("update", "usave")))
     \/ /\ db
        /\ \E r \in store : \E u \in Edits(r) :
             Issue([NewCall("update", "usave") EXCEPT !.user = u])
  /\ UNCHANGED <<variant, config, db, emailIndex, nameIndex, store, nextId,
                 nextToken, fresh>>

\* What update's save callback does when the store reports an error:
\* index.js returns done(err); part_000 logs it and goes on to the re-read.
UpdateRejected(c, error) ==
  IF variant = "index"
  THEN Done([c EXCEPT !.saveErr = error], "err", error, <<>>)
  ELSE [c EXCEPT !.saveErr = error, !.pc = "reread"]

\* The store handles update's save (an upsert by _id) and the callback runs.
UpdateSaved(c) ==
  /\ c.pc = "usave"
  /\ \E failed \in BOOLEAN :
       LET dup == DuplicateKey(c.user)
           error == IF failed THEN Err("StoreError") ELSE Err("DuplicateUser")
           c1 == [c EXCEPT !.existed = Matching("_id", c.user._id) # {}]
       IN IF failed \/ dup
          THEN /\ Step(c, UpdateRejected(c1, error))
               /\ UNCHANGED <<store, nextId, fresh>>
          ELSE /\ store' = StoreAfterSave(c.user)
               /\ nextId' = IF c.user._id = NoId THEN nextId + 1 ELSE nextId
               /\ StepWrite(c, [c1 EXCEPT !.pc = "reread", !.wrote = TRUE])
               /\ fresh' = { r \in fresh : r._id # c.user._id }
  /\ UNCHANGED <<issued, variant, config, db, emailIndex, nameIndex, nextToken>>

\* findOne({_id: user._id}, done): the re-read of update.
UpdateReread(c) ==
  /\ c.pc = "reread"
  /\ \E failed \in BOOLEAN :
       \E d \in Found("_id", c.user._id, failed) :
         Step(c, FindAnswer(c, failed, d))
  /\ UNCHANGED <<issued, variant, config, db, emailIndex, nameIndex, store, nextId,
                 nextToken, fresh>>

\* ---------------------------------------------------------- remove
\* remove's callback without the test of the number of deleted documents.
RemoveAnswerNoCount(c, failed, n) ==
  IF failed THEN Done(c, "err", Err("StoreError"), <<>>)
  ELSE Done(c, "true", NoErr, <<>>)

\* remove's callback, given the store's error or the number n of deleted
\* documents.
RemoveAnswer(c, failed, n) ==
  IF failed THEN Done(c, "err", Err("StoreError"), <<>>)
  ELSE IF n = 0 THEN Done(c, "err", CannotFindUser(c.query), <<>>)
  ELSE Done(c, "true", NoErr, <<>>)

\* remove with a filter on a field the documents do not have.
RemovedWrongField(name, failed) == {}

\* remove that deletes one matching document only.
RemovedOne(name, failed) ==
  IF failed \/ Matching("name", name) = {} THEN {}
  ELSE { CHOOSE d \in Matching("name", name) : TRUE }

\* The documents remove({name: name}) deletes.
Removed(name, failed) == IF failed THEN {} ELSE Matching("name", name)

\* remove(name, done) with the store's answer, one step as for find: the
\* store deletes every document of that name and the callback runs.
Remove ==
  /\ \E name \in Names, failed \in BOOLEAN :
       LET c == [NewCall("remove", "remove") EXCEPT !.query = name]
           gone == Removed(name, failed)
       IN IF ~db
          THEN /\ IssueEnded(Threw(c))
               /\ UNCHANGED <<store, fresh>>
          ELSE /\ store' = store \ gone
               /\ fresh' = fresh \ gone
               /\ ended = <<>>
               /\ issued < MaxCalls
               /\ issued' = issued + 1
               /\ ended' = <<RemoveAnswer(c, failed, Cardinality(gone))>>
               /\ calls' = IF gone = {} THEN calls ELSE MarkWriters(calls)
  /\ UNCHANGED <<variant, config, db, emailIndex, nameIndex, nextId, nextToken>>

\* The caller's done callback (or the handler of the exception) has run to
\* its end: handlers run one at a time, so no other step comes before.
Return ==
  /\ ended # <<>>
  /\ ended' = <<>>
  /\ UNCHANGED <<variant, config, db, emailIndex, nameIndex, store, nextId,
                 nextToken, issued, calls, fresh>>

Next ==
  \/ Connect
  \/ BuildEmailIndex
  \/ BuildNameIndex
  \/ CallSave
  \/ Find
  \/ CallUpdate
  \/ Remove
  \/ \E c \in InFlight : HashDone(c)
  \/ \E c \in InFlight : SaveStored(c)
  \/ \E c \in InFlight : UpdateSaved(c)
  \/ \E c \in InFlight : UpdateReread(c)
  \/ Return

Spec == Init /\ [][Next]_vars
\* ================================================================ claims

\* The call that just ended, as a set of at most one call.
Ended == IF ended = <<>> THEN {} ELSE {ended[1]}
\* The store answered the call's request (no infrastructure error, and the
\* call reached the store at all).
Answered(c) == c.ret # "threw" /\ c.err.kind # "StoreError"

\* C1 (as stated): find by 'name', 'email' or 'signupToken' with the values
\* of a record that create returned, created when no stored record had its
\* name or email and not updated or removed since, returns that same record.
C1_FindReturnsCreated ==
  \A c \in Ended, r \in fresh :
    (c.op = "find" /\ Answered(c) /\ r[c.match] = c.query) => c.doc = <<r>>

\* C1 (amended): a successful create hands its callback the persisted
\* record, with a store-assigned identifier, failedLoginAttempts = 0, a
\* signupToken and a credential hash that is not the plaintext secret; find
\* with that record's values returns a stored record carrying the value
\* asked for, which is that same record for 'signupToken' and whenever no
\* other stored record carries the same name or email.
C1_CreateThenFind ==
  /\ \A c \in Ended :
       (c.op = "save" /\ c.ret = "doc") =>
         LET r == c.doc[1]
         IN /\ r \in store
            /\ r._id # NoId
            /\ r.name = c.user.name /\ r.email = c.user.email
            /\ r.failedLoginAttempts = 0
            /\ r.signupToken = c.user.signupToken
            /\ r.signupToken # NoUser.signupToken
            /\ r.derived_key # c.pw
  /\ \A c \in Ended, r \in fresh :
       (c.op = "find" /\ Answered(c) /\ r[c.match] = c.query) =>
         /\ c.ret = "doc"
         /\ c.doc[1] \in store
         /\ c.doc[1][c.match] = c.query
         /\ (c.match = "signupToken" => c.doc = <<r>>)
         /\ (Matching(c.match, c.query) = {r} => c.doc = <<r>>)

\* C1 witness: a find has just returned a record exactly as create made it.
C1_Witness ==
  \E c \in Ended, r \in fresh : c.op = "find" /\ c.doc = <<r>>

\* C2: when a record with the email is already stored, the store's answer
\* to a second create with that email ends in the callback receiving a
\* DuplicateUser error, and the store is left as it was.
C2_DuplicateEmail ==
  [][ \A c \in InFlight :
        ( /\ c.pc = "save"
          /\ \E o \in store : o.email = c.user.email
          /\ ended' # <<>>
          /\ ended'[1].op = "save"
          /\ ended'[1].user = c.user
          /\ ended'[1].saveErr.kind # "StoreError" )
        => ( /\ ended'[1].ret = "err"
             /\ ended'[1].err.kind = "DuplicateUser"
             /\ store' = store ) ]_vars

\* C3: in every reachable state no two stored records share an email, and
\* when uniqueName is configured no two share a name.
C3_Unique ==
  \A a, b \in store :
    a # b => /\ a.email # b.email
             /\ (config.uniqueName => a.name # b.name)

\* C4: for every record create builds, signupTokenExpires minus
\* signupTimestamp is the parsed configured TTL exactly.
C4_ExactTTL ==
  \A c \in InFlight :
    c.op = "save" =>
      c.user.signupTokenExpires - c.user.signupTimestamp
        = ms(config.tokenExpiration)

\* C5: an update whose identifier matches no stored record when the store
\* handles its save adds no record and ends with an error.
C5_UpdateNeverAdds ==
  \A c \in InFlight \cup Ended :
    c.op = "update" =>
      /\ (c.wrote => c.existed)
      /\ (c.pc = "end" /\ Answered(c) /\ ~c.existed => c.ret = "err")

\* C6: with no concurrent writer, an update of an existing identifier that
\* ends without error returns the given record, which is then the stored
\* record of that identifier.
C6_UpdateReturnsGiven ==
  \A c \in Ended :
    (c.op = "update" /\ c.existed /\ ~c.conc /\ c.ret \in {"doc", "null"}) =>
      /\ c.doc = <<c.user>>
      /\ c.user \in store

\* C7: remove(name) when no stored record has that name (never stored, or
\* deleted by an earlier remove) leaves the store unchanged and gives its
\* callback an error, never true: the UserNotFound error carrying the name,
\* unless the store itself failed.
C7_RemoveMissing ==
  [][ \A c \in (IF ended' = <<>> THEN {} ELSE {ended'[1]}) :
        (c.op = "remove" /\ c.ret # "threw" /\ Matching("name", c.query) = {})
        => ( /\ store' = store
             /\ c.ret = "err"
             /\ c.dones = 1
             /\ (c.err.kind # "StoreError" => c.err = CannotFindUser(c.query)) )
    ]_vars

\* C7 witness: a remove has just ended with UserNotFound for a name, after
\* a record had been stored and every record has been deleted again.
C7_Witness ==
  \E c \in Ended :
    /\ c.op = "remove" /\ c.err = CannotFindUser(c.query)
    /\ nextId > 1 /\ store = {}

\* C8: remove(name) when a record of that name is stored returns true (if
\* the store answers) and leaves no record of that name; a name that no
\* stored record has comes back only with the write of a create or of an
\* update carrying that name; and find('name', name) returns null without
\* error whenever no stored record has the name.
NameStored(n, docs) == \E d \in docs : d.name = n
C8_RemoveThenFind ==
  [][ /\ \A c \in (IF ended' = <<>> THEN {} ELSE {ended'[1]}) :
           /\ (c.op = "remove" /\ Answered(c) /\ NameStored(c.query, store))
                => (c.ret = "true" /\ c.dones = 1 /\ ~NameStored(c.query, store'))
           /\ (c.op = "find" /\ c.match = "name" /\ Answered(c)
                 /\ ~NameStored(c.query, store'))
                => (c.ret = "null" /\ c.err = NoErr /\ c.doc = <<>>)
      /\ \A n \in Names :
           (~NameStored(n, store) /\ NameStored(n, store')) =>
             \/ \E c \in InFlight : c.pc = "save" /\ c.user.name = n
             \/ \E c \in InFlight : c.pc = "usave" /\ c.user.name = n
    ]_vars

\* C8 witness: find('name', name) has just returned null for a name whose
\* record was stored and removed.
C8_Witness ==
  \E c \in Ended :
    /\ c.op = "find" /\ c.match = "name" /\ c.ret = "null"
    /\ nextId > 1 /\ store = {}

\* C9: when the hasher fails, create returns that error to its callback
\* exactly once and is over: it never reaches the store, and no stored
\* record is the one it built.
C9_HashFailure ==
  [][ /\ \A c \in BagToSet(calls') : c.hashErr = NoErr
      /\ \A c \in (IF ended' = <<>> THEN {} ELSE {ended'[1]}) :
           c.hashErr # NoErr =>
             /\ c.op = "save"
             /\ c.ret = "err" /\ c.err = c.hashErr /\ c.dones = 1
             /\ store' = store
             /\ \A d \in store' : d.signupToken # c.user.signupToken
    ]_vars

\* C9 witness: a create has just ended with the hasher's error while a
\* record is stored.
C9_Witness ==
  \E c \in Ended : c.hashErr.kind = "HashingFailure" /\ store # {}

\* C10: when the save step of update fails, update ends there with that
\* error: it does not go on to the re-read and reports no record.
C10_UpdateSaveError ==
  \A c \in InFlight \cup Ended :
    (c.op = "update" /\ c.saveErr # NoErr) =>
      /\ c.pc = "end"
      /\ c.ret = "err"
      /\ c.err = c.saveErr

\* The call that has just ended in the step, as a set of at most one call.
EndedNow == IF ended' = <<>> THEN {} ELSE {ended'[1]}

\* C11: the record update returns is the stored state of its identifier at
\* the moment of the re-read, which comes after the store has handled
\* update's own save (null when no record of the identifier is stored); once
\* its own save has been applied, that is its own written record unless
\* another caller's write or remove reached the store while the update was
\* in flight.
C11_RereadSnapshot ==
  [][ \A c \in EndedNow :
        (c.op = "update" /\ c.ret \in {"doc", "null"}) =>
          /\ \E b \in InFlight : b.pc = "reread" /\ b.user = c.user
          /\ c.ret = "doc" =>
               /\ Matching("_id", c.user._id) = {c.doc[1]}
               /\ (c.wrote => (c.doc[1] = c.user \/ c.conc))
          /\ c.ret = "null" =>
               /\ Matching("_id", c.user._id) = {}
               /\ (c.wrote => c.conc)
    ]_vars

\* C11 witness: an update whose save was applied has just returned the
\* record a concurrent writer stored after it.
C11_Witness ==
  \E c \in Ended :
    /\ c.op = "update" /\ c.wrote /\ c.conc
    /\ c.ret = "doc" /\ c.doc # <<c.user>>
    /\ c.doc[1] \in store

\* C12 (as stated): in every reachable state every stored record has
\* signupTokenExpires > signupTimestamp.
C12_ExpiresAfterTimestamp ==
  \A d \in store : d.signupTokenExpires > d.signupTimestamp

\* C12 (amended): every record a create stores has signupTokenExpires >
\* signupTimestamp; any other record that enters the store is the record a
\* caller gave to update, stored as given, whatever its signupTokenExpires.
C12_CreateExpiresLater ==
  [][ \A d \in store' \ store :
        \/ \E c \in InFlight :
             /\ c.pc = "save" /\ d = Saved(c.user)
             /\ d.signupTokenExpires > d.signupTimestamp
        \/ \E c \in InFlight : c.pc = "usave" /\ d = c.user
    ]_vars

\* C12 witness: a create has just stored a record that expires after its
\* timestamp, while the record of another create has had its token and
\* expiry cleared by an update.
C12_Witness ==
  /\ \E c \in Ended :
       /\ c.op = "save" /\ c.ret = "doc" /\ c.doc[1] \in store
       /\ c.doc[1].signupTokenExpires > c.doc[1].signupTimestamp
  /\ \E d \in store : d.signupTokenExpires = NoUser.signupTokenExpires

\* C13: find never changes the store, and when no stored record matches
\* (match, query) and the store answers, its callback receives null with no
\* error, exactly once.
C13_FindReadsOnly ==
  [][ \A c \in EndedNow :
        c.op = "find" =>
          /\ store' = store
          /\ (Answered(c) /\ Matching(c.match, c.query) = {}) =>
               (c.ret = "null" /\ c.err = NoErr /\ c.doc = <<>> /\ c.dones = 1)
    ]_vars

\* C13 witness: a find by email has just returned null while a record with
\* another email is stored.
C13_Witness ==
  \E c \in Ended :
    /\ c.op = "find" /\ c.match = "email" /\ c.ret = "null"
    /\ c.err = NoErr /\ store # {}

\* C14: the record a create builds carries the extra payload the caller
\* gave if and only if useExtra is enabled; with useExtra disabled no stored
\* record has an extra field.
C14_ExtraIffEnabled ==
  /\ \A c \in InFlight \cup Ended :
       c.op = "save" =>
         c.user.extra = (IF config.useExtra THEN c.extra ELSE NoExtra)
  /\ \A d \in store : ~config.useExtra => d.extra = NoExtra

\* C15: the unique index on email, and on name when uniqueName is
\* configured, is built before the write of any create reaches the store:
\* no create persists a record while an index is not yet in place.
C15_IndexBeforeCreate ==
  [][ \A c \in InFlight :
        (c.pc = "save" /\ Saved(c.user) \in store' \ store) =>
          /\ emailIndex = "built"
          /\ (config.uniqueName => nameIndex = "built")
    ]_vars

\* C16: update is last-writer-wins on the whole document: whenever the
\* stored record of an identifier changes and a record remains, the record
\* that remains is, field for field, the record given to the one update
\* whose save the store has just applied (or the record of the create that
\* inserted it); an identifier never has two records.
C16_LastWriterWins ==
  [][ \A id \in { d._id : d \in store \cup store' } :
        LET before == { d \in store : d._id = id }
            after == { d \in store' : d._id = id }
        IN /\ Cardinality(after) <= 1
           /\ (after # before /\ after # {}) =>
                \/ \E c \in InFlight :
                     c.pc = "usave" /\ c.user._id = id /\ after = {c.user}
                \/ \E c \in InFlight :
                     c.pc = "save" /\ before = {} /\ after = {Saved(c.user)}
    ]_vars

\* C16 witness: of two concurrent updates of one identifier, the one whose
\* save was applied first has just re-read the record of the other: neither
\* its email nor its count of failed logins is left in the stored record.
C16_Witness ==
  \E c \in Ended :
    /\ c.op = "update" /\ c.wrote /\ c.conc /\ c.ret = "doc"
    /\ c.doc[1] \in store
    /\ c.doc[1].email # c.user.email
    /\ c.doc[1].failedLoginAttempts # c.user.failedLoginAttempts

\* C17: every call of save, find, update or remove made after the handle
\* was assigned has, when it ends, invoked its done callback exactly once,
\* whatever the hasher and the store answered.
C17_DoneExactlyOnce ==
  \A c \in Ended : c.connected => c.dones = 1

\* C18: the store handle is assigned at most once and never unset; the
\* store changes, and a call waits for the store's answer, only while the
\* handle is assigned; find, update or remove called while it is unset ends
\* in that same step with an exception: its done callback is not invoked,
\* the store is untouched and the call is not kept in flight.
C18_HandleOnce ==
  [][ /\ db => db'
      /\ store' # store => db
      /\ \A c \in BagToSet(calls') :
           c.pc \in {"save", "usave", "reread"} => db
      /\ \A c \in EndedNow :
           (~db /\ c.op \in {"find", "update", "remove"}) =>
             /\ c.ret = "threw" /\ c.dones = 0 /\ ~c.connected
             /\ store' = store
             /\ calls' = calls
    ]_vars

\* C18 witness: a remove called before the connect callback has just ended
\* with an exception, its callback never invoked.
C18_Witness ==
  /\ ~db
  /\ \E c \in Ended : c.op = "remove" /\ c.ret = "threw" /\ c.dones = 0

\* C19: a remove(name) that returns true has deleted every stored record
\* whose name is the given name and has left every other record as it was,
\* whatever its email or signupToken.
C19_RemoveAllOfName ==
  [][ \A c \in EndedNow :
        (c.op = "remove" /\ c.ret = "true") =>
          /\ store' = { d \in store : d.name # c.query }
          /\ store' # store
    ]_vars

\* C19 witness: one remove has just deleted the two stored records that
\* shared its name.
C19_Witness ==
  \E c \in Ended :
    /\ c.op = "remove" /\ c.ret = "true"
    /\ store = {} /\ nextId = 3 /\ issued = 3
====
